---- MODULE Spec2Model ----
(***************************************************************************)
(* A model of generate_prompt.py: the file classifier, the two directory   *)
(* traversals (tree rendering and target collection) and the report        *)
(* writer, run against small directory trees.                              *)
(*                                                                         *)
(* A string is a sequence of one-character strings.  A character outside   *)
(* ASCII is written as its code point, "U+2514"; the newline is "\n".      *)
(***************************************************************************)
EXTENDS Naturals, Sequences, FiniteSets

VARIABLES
    fs,              \* the directory tree: the set of paths (sequences of names) below the root
    denied,          \* paths whose listing (directory) or reading (file) raises PermissionError
    out_arg,         \* where --out points: "inside" the root (the default), "outside", "unwritable"
    pc,              \* position in main
    run,             \* which invocation of main this is: "first" or "second"
    directory_tree,  \* main: the text returned by get_directory_structure
    stack,           \* os.walk: directories still to be visited
    target_files,    \* collect_files: paths appended so far
    files_to_list,   \* main: the list returned by collect_files
    f,               \* the text written to the output stream so far
    k,               \* index of the next element of files_to_list in the write loop
    read_log,        \* what each read of the write loop returned, in order
    out_disk,        \* text of the output file left on disk by the last completed run
    reports,         \* the report of every completed run
    file_path,       \* classifier alone: the argument of is_target_file
    verdict          \* classifier alone: "none" or the value is_target_file returned

vars == << fs, denied, out_arg, pc, run, directory_tree, stack, target_files,
           files_to_list, f, k, read_log, out_disk, reports, file_path, verdict >>

----------------------------------------------------------------------------
\* Characters and strings

\* The characters of names, in ascending code-point order.
Ascii ==
    <<"\n"," ","'","-",".","/","1","2","3",":","=",
      "A","B","C","D","E","F","G","H","I","J","K","L","M","N","O","P","Q","R","S","T","U","V","W","X","Y","Z",
      "[","]","_",
      "a","b","c","d","e","f","g","h","i","j","k","l","m","n","o","p","q","r","s","t","u","v","w","x","y","z">>

Chars == { Ascii[i] : i \in DOMAIN Ascii }

Ord == [ c \in Chars |-> CHOOSE i \in DOMAIN Ascii : Ascii[i] = c ]

UpperCase == <<"A","B","C","D","E","F","G","H","I","J","K","L","M","N","O","P","Q","R","S","T","U","V","W","X","Y","Z">>
LowerCase == <<"a","b","c","d","e","f","g","h","i","j","k","l","m","n","o","p","q","r","s","t","u","v","w","x","y","z">>

ToLower ==
    [ c \in Chars |->
        IF \E i \in DOMAIN UpperCase : UpperCase[i] = c
        THEN LowerCase[CHOOSE i \in DOMAIN UpperCase : UpperCase[i] = c]
        ELSE c ]

lower(s) == [ i \in DOMAIN s |-> ToLower[s[i]] ]

startswith(s, prefix) ==
    /\ Len(prefix) <= Len(s)
    /\ SubSeq(s, 1, Len(prefix)) = prefix

\* s.rfind(c): the last index of c in s, 0 when absent (indices from 1).
rfind(s, c) ==
    LET at == { i \in DOMAIN s : s[i] = c }
    IN  IF at = {} THEN 0 ELSE CHOOSE i \in at : \A j \in at : j <= i

\* Python's str comparison: by code point, a proper prefix first.
StrLess(a, b) ==
    LET n    == IF Len(a) < Len(b) THEN Len(a) ELSE Len(b)
        diff == { i \in 1..n : a[i] # b[i] }
    IN  IF diff = {} THEN Len(a) < Len(b)
        ELSE LET i == CHOOSE d \in diff : \A e \in diff : d <= e
             IN  Ord[a[i]] < Ord[b[i]]

RECURSIVE Concat(_)
Concat(ss) == IF ss = <<>> THEN <<>> ELSE Head(ss) \o Concat(Tail(ss))

RECURSIVE str_join(_, _)
str_join(sep, ss) ==
    IF ss = <<>> THEN <<>>
    ELSE IF Len(ss) = 1 THEN ss[1]
    ELSE ss[1] \o sep \o str_join(sep, Tail(ss))

\* s.split(sep) for a one-character separator.
RECURSIVE str_split(_, _)
str_split(s, sep) ==
    LET at == { i \in DOMAIN s : s[i] = sep }
    IN  IF at = {} THEN << s >>
        ELSE LET i == CHOOSE d \in at : \A e \in at : d <= e
             IN  << SubSeq(s, 1, i - 1) >> \o str_split(SubSeq(s, i + 1, Len(s)), sep)

----------------------------------------------------------------------------
\* Filter rules

\* TARGET_EXTENSIONS with an extension of the ignore list added to it.
TARGET_EXTENSIONS_with_so ==
    { <<".","c">>, <<".","c","p","p">>, <<".","c","c">>, <<".","c","x","x">>, <<".","h">>, <<".","h","p","p">>, <<".","h","h">>,
      <<".","j","a","v","a">>, <<".","k","t">>, <<".","c","s">>, <<".","g","o">>, <<".","r","s">>, <<".","s","w","i","f","t">>,
      <<".","j","s">>, <<".","j","s","x">>, <<".","t","s">>, <<".","t","s","x">>, <<".","p","h","p">>, <<".","p","y">>, <<".","r","b">>,
      <<".","s","h">>, <<".","b","a","t">>, <<".","c","m","d">>, <<".","p","s","1">>,
      <<".","j","s","o","n">>, <<".","y","a","m","l">>, <<".","y","m","l">>, <<".","t","o","m","l">>, <<".","i","n","i">>, <<".","c","f","g">>, <<".","c","o","n","f","i","g">>, <<".","e","n","v">>,
      <<".","m","d">>, <<".","t","x","t">>, <<".","s","o">> }

TARGET_EXTENSIONS ==
    { <<".","c">>, <<".","c","p","p">>, <<".","c","c">>, <<".","c","x","x">>, <<".","h">>, <<".","h","p","p">>, <<".","h","h">>,
      <<".","j","a","v","a">>, <<".","k","t">>,
      <<".","c","s">>,
      <<".","g","o">>,
      <<".","r","s">>,
      <<".","s","w","i","f","t">>,
      <<".","j","s">>, <<".","j","s","x">>, <<".","t","s">>, <<".","t","s","x">>,
      <<".","p","h","p">>,
      <<".","p","y">>,
      <<".","r","b">>,
      <<".","s","h">>, <<".","b","a","t">>, <<".","c","m","d">>, <<".","p","s","1">>,
      <<".","j","s","o","n">>, <<".","y","a","m","l">>, <<".","y","m","l">>, <<".","t","o","m","l">>, <<".","i","n","i">>, <<".","c","f","g">>, <<".","c","o","n","f","i","g">>, <<".","e","n","v">>,
      <<".","m","d">>, <<".","t","x","t">> }

TARGET_FILENAMES ==
    { <<"m","a","k","e","f","i","l","e">>, <<"d","o","c","k","e","r","f","i","l","e">>, <<"r","e","a","d","m","e">>,
      <<"r","e","q","u","i","r","e","m","e","n","t","s",".","t","x","t">>, <<"p","i","p","f","i","l","e">>, <<"p","a","c","k","a","g","e",".","j","s","o","n">>,
      <<"t","s","c","o","n","f","i","g",".","j","s","o","n">>, <<"c","o","m","p","o","s","e","r",".","j","s","o","n">> }

IGNORE_DIRNAMES == << <<".","g","i","t">>, <<"n","o","d","e","_","m","o","d","u","l","e","s">>, <<"_","_","p","y","c","a","c","h","e","_","_">> >>

IGNORE_FILENAMES ==
    { <<".","g","i","t","i","g","n","o","r","e">>,
      <<".","p","y","c">>, <<".","o">>, <<".","c","l","a","s","s">>, <<".","e","x","e">>, <<".","d","l","l">>, <<".","s","o">> }

----------------------------------------------------------------------------
\* File classifier

\* os.path.basename: what follows the last "/".
basename(p) == SubSeq(p, rfind(p, "/") + 1, Len(p))

\* os.path.splitext(p)[1]: the text from the last dot on, and empty when that
\* dot is absent, lies before the last "/", or has only dots between the last
\* "/" and itself (leading dots of a name start no extension).
splitext_ext(p) ==
    LET sepIndex == rfind(p, "/")
        dotIndex == rfind(p, ".")
    IN  IF /\ dotIndex > sepIndex
           /\ \E i \in (sepIndex + 1)..(dotIndex - 1) : p[i] # "."
        THEN SubSeq(p, dotIndex, Len(p))
        ELSE <<>>

is_target_file(path) ==
    LET base_name       == basename(path)
        ext             == splitext_ext(base_name)
        base_name_lower == lower(base_name)
        ext_lower       == lower(ext)
    IN  IF base_name_lower \in IGNORE_FILENAMES THEN FALSE
        ELSE IF ext_lower \in TARGET_EXTENSIONS THEN TRUE
        ELSE IF ext_lower = <<>> /\ base_name_lower \in TARGET_FILENAMES THEN TRUE
        ELSE FALSE

\* is_ignore_dir comparing the whole name instead of its beginning.
is_ignore_dir_exact(dir_name) ==
    LET dir_name_lower == lower(dir_name)
    IN  \E i \in DOMAIN IGNORE_DIRNAMES : dir_name_lower = IGNORE_DIRNAMES[i]

is_ignore_dir(dir_name) ==
    LET dir_name_lower == lower(dir_name)
    IN  \E i \in DOMAIN IGNORE_DIRNAMES : startswith(dir_name_lower, IGNORE_DIRNAMES[i])

----------------------------------------------------------------------------
\* The file system the tool runs against

MaxEntries == 3     \* entries of the tree below the root before the first run
MaxDenied  == 1     \* entries whose access raises PermissionError
FlushUnit  == 48    \* characters in a block of the output stream's buffer

\* --dir resolved by os.path.abspath, and the default --out inside it.
root_path == <<"/","p","r","o","j">>
OutName   == <<"o","u","t","p","u","t",".","t","x","t">>

\* The entries a tree is drawn from; a path is the sequence of its names.
Universe ==
    { << <<"a",".","p","y">> >>, << <<"m","a","k","e","f","i","l","e">> >>, << <<"R","E","A","D","M","E">> >>, << <<".","e","n","v">> >>, << <<".","g","i","t","i","g","n","o","r","e">> >>,
      << <<"a">> >>, << <<"a">>, <<"b",".","p","y">> >>,
      << <<"a">>, <<".","G","i","t","2">> >>, << <<"a">>, <<".","G","i","t","2">>, <<"c",".","p","y">> >>,
      << <<"n","o","d","e","_","m","o","d","u","l","e","s">> >>, << <<"n","o","d","e","_","m","o","d","u","l","e","s">>, <<"s","k","i","p",".","j","s">> >> }

Directories == { << <<"a">> >>, << <<"a">>, <<".","G","i","t","2">> >>, << <<"n","o","d","e","_","m","o","d","u","l","e","s">> >> }

\* The text of each regular file of Universe.
Content(p) ==
    CASE p = << <<"a",".","p","y">> >>     -> <<"x","=","1">>
      [] p = << <<"m","a","k","e","f","i","l","e">> >> -> <<"a","l","l",":">> \o << "\n" >>
      [] p = << <<"R","E","A","D","M","E">> >>   -> <<"h","e","l","l","o">>
      [] OTHER                  -> << >>

Front(s) == SubSeq(s, 1, Len(s) - 1)

Trees ==
    { S \in SUBSET Universe :
        /\ Cardinality(S) <= MaxEntries
        /\ \A p \in S : Len(p) > 1 => Front(p) \in S }

\* os.path.join of a directory and a name.
join(a, b) == a \o << "/" >> \o b

\* The entry an absolute path string names: its names below root_path.
fs_key(path) ==
    IF path = root_path THEN << >>
    ELSE str_split(SubSeq(path, Len(root_path) + 2, Len(path)), "/")

\* relpath keeping only the file name.
relpath_flat(path, start) == SubSeq(path, rfind(path, "/") + 1, Len(path))

\* os.path.relpath(path, start) for a path below start.
relpath(path, start) == SubSeq(path, Len(start) + 2, Len(path))

isdir(path) ==
    \/ path = root_path
    \/ fs_key(path) \in fs /\ fs_key(path) \in Directories

\* os.listdir: the names in a directory, in no particular order.
listdir(path) ==
    LET d == fs_key(path)
    IN  { p[Len(p)] : p \in { q \in fs : Len(q) = Len(d) + 1 /\ Front(q) = d } }

\* str(e) of the PermissionError raised on path.
ErrorText(path) == <<"[","E","r","r","n","o"," ","1","3","]"," ","P","e","r","m","i","s","s","i","o","n"," ","d","e","n","i","e","d",":"," ","'">> \o path \o << "'" >>

----------------------------------------------------------------------------
\* Sorting

\* sorted(names): the names of a set in ascending string order.
RECURSIVE sorted(_)
sorted(S) ==
    IF S = {} THEN << >>
    ELSE LET m == CHOOSE x \in S : \A y \in S \ {x} : StrLess(x, y)
         IN  << m >> \o sorted(S \ {m})

RECURSIVE insert_sorted(_, _)
insert_sorted(x, s) ==
    IF s = << >> THEN << x >>
    ELSE IF StrLess(s[1], x) THEN << s[1] >> \o insert_sorted(x, Tail(s))
    ELSE << x >> \o s

\* A sort that compares paths name by name instead of as whole strings.
ComponentsLess(a, b) ==
    LET ca   == str_split(a, "/")
        cb   == str_split(b, "/")
        n    == IF Len(ca) < Len(cb) THEN Len(ca) ELSE Len(cb)
        diff == { i \in 1..n : ca[i] # cb[i] }
    IN  IF diff = {} THEN Len(ca) < Len(cb)
        ELSE LET i == CHOOSE d \in diff : \A e \in diff : d <= e
             IN  StrLess(ca[i], cb[i])

RECURSIVE list_sort_components(_)
list_sort_components(s) ==
    IF s = << >> THEN << >>
    ELSE LET m == CHOOSE i \in DOMAIN s : \A j \in DOMAIN s : j = i \/ ComponentsLess(s[i], s[j])
         IN  << s[m] >> \o list_sort_components(SubSeq(s, 1, m - 1) \o SubSeq(s, m + 1, Len(s)))

\* list.sort() of a list of strings.
RECURSIVE list_sort(_)
list_sort(s) ==
    IF s = << >> THEN << >> ELSE insert_sorted(Head(s), list_sort(Tail(s)))

----------------------------------------------------------------------------
\* Tree rendering

ConnectorLast  == << "U+2514", "U+2500", "U+2500" >>
ConnectorMid   == << "U+251C", "U+2500", "U+2500" >>
PrefixLast     == << " ", " ", " ", " " >>
PrefixMid      == << "U+2502", " ", " ", " " >>

RECURSIVE recurse_dir(_, _), recurse_items(_, _, _, _)

\* recurse_items with the except clause around the whole loop: a PermissionError
\* raised below an item ends the loop of the directory that holds the item.
recurse_items_trunc(current_path, prefix, items, i) ==
    IF i > Len(items) THEN << >>
    ELSE
        LET item      == items[i]
            item_path == join(current_path, item)
            rest      == recurse_items(current_path, prefix, items, i + 1)
        IN  IF isdir(item_path) /\ is_ignore_dir(item) THEN rest
            ELSE
                LET connector     == IF i = Len(items) THEN ConnectorLast ELSE ConnectorMid
                    line          == prefix \o connector \o << " " >> \o item
                    deeper_prefix == prefix \o (IF i = Len(items) THEN PrefixLast ELSE PrefixMid)
                IN  IF isdir(item_path) /\ fs_key(item_path) \in denied THEN << line >>
                    ELSE IF isdir(item_path)
                    THEN << line >> \o recurse_dir(item_path, deeper_prefix) \o rest
                    ELSE << line >> \o rest

\* The for loop of recurse_dir from index i on: the lines it appends.
recurse_items(current_path, prefix, items, i) ==
    IF i > Len(items) THEN << >>
    ELSE
        LET item      == items[i]
            item_path == join(current_path, item)
            rest      == recurse_items(current_path, prefix, items, i + 1)
        IN  IF isdir(item_path) /\ is_ignore_dir(item) THEN rest
            ELSE
                LET connector     == IF i = Len(items) THEN ConnectorLast ELSE ConnectorMid
                    line          == prefix \o connector \o << " " >> \o item
                    deeper_prefix == prefix \o (IF i = Len(items) THEN PrefixLast ELSE PrefixMid)
                    below         == IF isdir(item_path)
                                     THEN recurse_dir(item_path, deeper_prefix)
                                     ELSE << >>
                IN  << line >> \o below \o rest

\* The lines recurse_dir appends; a listing that raises PermissionError appends none.
recurse_dir(current_path, prefix) ==
    IF fs_key(current_path) \in denied THEN << >>
    ELSE recurse_items(current_path, prefix, sorted(listdir(current_path)), 1)

get_directory_structure(root) ==
    LET base_name == basename(root)
        lines     == << base_name >> \o recurse_dir(root, << >>)
    IN  str_join(<< "\n" >>, lines)

----------------------------------------------------------------------------
\* Target collection

Perms(S) ==
    { s \in [ 1..Cardinality(S) -> S ] : \A i, j \in DOMAIN s : s[i] = s[j] => i = j }

Reverse(s) == [ i \in DOMAIN s |-> s[Len(s) + 1 - i] ]

\* The inner loop of collect_files over the file names of one directory.
collect_from(dirpath, filenames) ==
    LET hit(n) == is_target_file(join(dirpath, n))
        good   == SelectSeq(filenames, hit)
    IN  [ i \in DOMAIN good |-> relpath(join(dirpath, good[i]), root_path) ]

----------------------------------------------------------------------------
\* Report

Header1 == <<"=","=","="," ","D","i","r","e","c","t","o","r","y"," ","S","t","r","u","c","t","u","r","e"," ","=","=","=">> \o << "\n" >>
Header2 == <<"=","=","="," ","F","i","l","e"," ","C","o","n","t","e","n","t","s"," ","=","=","=">> \o << "\n" >>

Delimiter(rel_path) == <<"-","-","-"," ">> \o rel_path \o <<" ","-","-","-">> \o << "\n" >>

Placeholder(e) ==
    << "[", "U+8AAD", "U+307F", "U+8FBC", "U+307F", "U+30A8", "U+30E9", "U+30FC", ":", " " >>
        \o e \o << "]", "\n" >>

----------------------------------------------------------------------------
\* main

Init ==
    /\ fs \in Trees
    /\ denied \in { D \in SUBSET fs : Cardinality(D) <= MaxDenied }
    /\ out_arg \in { "inside", "outside", "unwritable" }
    /\ pc = "tree"
    /\ run = "first"
    /\ directory_tree = << >>
    /\ stack = << >>
    /\ target_files = << >>
    /\ files_to_list = << >>
    /\ f = << >>
    /\ k = 1
    /\ read_log = << >>
    /\ out_disk = << >>
    /\ reports = << >>
    /\ file_path = << >>
    /\ verdict = "none"

\* directory_tree = get_directory_structure(root_path), then the call of collect_files.
GetDirectoryStructure ==
    /\ pc = "tree"
    /\ directory_tree' = get_directory_structure(root_path)
    /\ stack' = << root_path >>
    /\ target_files' = << >>
    /\ pc' = "walk"
    /\ UNCHANGED << fs, denied, out_arg, run, files_to_list, f, k, read_log,
                    out_disk, reports, file_path, verdict >>

\* One iteration of the loop over os.walk: the walk pops a directory, skips it
\* when its listing raises, and otherwise yields its directory and file names in
\* the order the file system gives them; the body prunes the directory names
\* and collects the target files; the walk then pushes what is left of them.
WalkStep ==
    /\ pc = "walk"
    /\ stack # << >>
    /\ LET top == stack[Len(stack)]
       IN  IF fs_key(top) \in denied
           THEN /\ stack' = Front(stack)
                /\ UNCHANGED target_files
           ELSE \E dirs \in Perms({ n \in listdir(top) : isdir(join(top, n)) }),
                   nondirs \in Perms({ n \in listdir(top) : ~isdir(join(top, n)) }) :
                    LET keep(d)  == ~is_ignore_dir(d)
                        dirnames == SelectSeq(dirs, keep)
                        pushed   == Reverse(dirnames)
                    IN  /\ target_files' = target_files \o collect_from(top, nondirs)
                        /\ stack' = Front(stack) \o
                                      [ i \in DOMAIN pushed |-> join(top, pushed[i]) ]
    /\ UNCHANGED << fs, denied, out_arg, pc, run, directory_tree, files_to_list, f, k,
                    read_log, out_disk, reports, file_path, verdict >>

\* The walk is exhausted: collect_files sorts and returns.
CollectReturn ==
    /\ pc = "walk"
    /\ stack = << >>
    /\ files_to_list' = list_sort(target_files)
    /\ pc' = "open"
    /\ UNCHANGED << fs, denied, out_arg, run, directory_tree, stack, target_files, f, k,
                    read_log, out_disk, reports, file_path, verdict >>

\* open(out_path, "w") and the writes before the loop; an unwritable out_path
\* raises and nothing catches it.
OpenOut ==
    /\ pc = "open"
    /\ IF out_arg = "unwritable"
       THEN /\ pc' = "failed"
            /\ UNCHANGED << fs, f, k, out_disk >>
       ELSE /\ fs' = IF out_arg = "inside" THEN fs \cup { << OutName >> } ELSE fs
            /\ out_disk' = << >>
            /\ f' = Header1 \o directory_tree \o << "\n", "\n" >> \o Header2
            /\ k' = 1
            /\ pc' = "write"
    /\ UNCHANGED << denied, out_arg, run, directory_tree, stack, target_files,
                    files_to_list, read_log, reports, file_path, verdict >>

\* What open(abs_path).read() gives after text has been written to the output
\* stream: the file's text, a PermissionError, or, for the output file itself,
\* as much of text as has reached the disk.  The stream is buffered: text
\* reaches the disk in blocks, and how many have is not the program's choice.
Reads(abs_path, text) ==
    LET key == fs_key(abs_path)
    IN  IF key \in denied
        THEN { [ ok |-> FALSE, text |-> ErrorText(abs_path) ] }
        ELSE IF out_arg = "inside" /\ key = << OutName >>
        THEN { [ ok |-> TRUE, text |-> SubSeq(text, 1, m * FlushUnit) ] :
                   m \in 0..(Len(text) \div FlushUnit) }
        ELSE { [ ok |-> TRUE, text |-> Content(key) ] }

\* WriteFile without the newline written after the content.
WriteFile_no_newline ==
    /\ pc = "write"
    /\ k <= Len(files_to_list)
    /\ LET rel_path == files_to_list[k]
           abs_path == join(root_path, rel_path)
           written  == f \o Delimiter(rel_path)
       IN  \E r \in Reads(abs_path, written) :
               LET content == IF r.ok THEN r.text ELSE Placeholder(r.text)
               IN  /\ f' = written \o content
                   /\ read_log' = Append(read_log, [ path |-> rel_path, ok |-> r.ok, text |-> r.text ])
    /\ k' = k + 1
    /\ UNCHANGED << fs, denied, out_arg, pc, run, directory_tree, stack, target_files,
                    files_to_list, out_disk, reports, file_path, verdict >>

\* WriteFile without the except clause: a failed read ends the run.
WriteFile_abort ==
    /\ pc = "write"
    /\ k <= Len(files_to_list)
    /\ LET rel_path == files_to_list[k]
           abs_path == join(root_path, rel_path)
           written  == f \o Delimiter(rel_path)
       IN  \E r \in Reads(abs_path, written) :
               IF r.ok
               THEN /\ f' = written \o r.text \o << "\n" >>
                    /\ read_log' = Append(read_log, [ path |-> rel_path, ok |-> r.ok, text |-> r.text ])
                    /\ k' = k + 1
                    /\ pc' = pc
               ELSE /\ f' = written
                    /\ pc' = "failed"
                    /\ UNCHANGED << read_log, k >>
    /\ UNCHANGED << fs, denied, out_arg, run, directory_tree, stack, target_files,
                    files_to_list, out_disk, reports, file_path, verdict >>

\* One iteration of the write loop.
WriteFile ==
    /\ pc = "write"
    /\ k <= Len(files_to_list)
    /\ LET rel_path == files_to_list[k]
           abs_path == join(root_path, rel_path)
           written  == f \o Delimiter(rel_path)
       IN  \E r \in Reads(abs_path, written) :
               LET content == IF r.ok THEN r.text ELSE Placeholder(r.text)
               IN  /\ f' = written \o content \o << "\n" >>
                   /\ read_log' = Append(read_log, [ path |-> rel_path, ok |-> r.ok, text |-> r.text ])
    /\ k' = k + 1
    /\ UNCHANGED << fs, denied, out_arg, pc, run, directory_tree, stack, target_files,
                    files_to_list, out_disk, reports, file_path, verdict >>

\* The loop is over: the with block closes the stream and main prints and returns.
Finish ==
    /\ pc = "write"
    /\ k > Len(files_to_list)
    /\ out_disk' = f
    /\ reports' = Append(reports, f)
    /\ pc' = "done"
    /\ UNCHANGED << fs, denied, out_arg, run, directory_tree, stack, target_files,
                    files_to_list, f, k, read_log, file_path, verdict >>

\* The tool is run a second time with the same arguments; every list is built
\* afresh.
Rerun ==
    /\ pc = "done"
    /\ run = "first"
    /\ run' = "second"
    /\ pc' = "tree"
    /\ directory_tree' = << >>
    /\ stack' = << >>
    /\ target_files' = << >>
    /\ files_to_list' = << >>
    /\ f' = << >>
    /\ k' = 1
    /\ read_log' = << >>
    /\ UNCHANGED << fs, denied, out_arg, out_disk, reports, file_path, verdict >>

Next ==
    \/ GetDirectoryStructure
    \/ WalkStep
    \/ CollectReturn
    \/ OpenOut
    \/ WriteFile
    \/ Finish
    \/ Rerun

Spec == Init /\ [][Next]_vars

----------------------------------------------------------------------------
\* The classifier on its own: is_target_file applied to one path string

ClassifierDirs  == { << >>, <<"a","/">>, <<"x",".","p","y","/">> }
ClassifierStems == { << >>, <<"a">>, <<"A",".","b">>, <<".">>, <<"M","a","k","e","f","i","l","e">>, <<"R","E","A","D","M","E">>, <<"r","e","q","u","i","r","e","m","e","n","t","s">>,
                     <<".","x">>, <<"l","i","b">> }
ClassifierExts  == { << >>, <<".","p","y">>, <<".","P","Y">>, <<".","e","n","v">>, <<".","c","o","n","f","i","g">>, <<".","t","x","t">>, <<".","J","s","o","n">>,
                     <<".","p","y","c">>, <<".","O">>, <<".","s","o">>, <<".","g","i","t","i","g","n","o","r","e">>, <<".">> }

ClassifierInputs ==
    { d \o s \o e : d \in ClassifierDirs, s \in ClassifierStems, e \in ClassifierExts }

InitClassify ==
    /\ file_path \in ClassifierInputs
    /\ verdict = "none"
    /\ fs = {}
    /\ denied = {}
    /\ out_arg = "outside"
    /\ pc = "classify"
    /\ run = "first"
    /\ directory_tree = << >>
    /\ stack = << >>
    /\ target_files = << >>
    /\ files_to_list = << >>
    /\ f = << >>
    /\ k = 1
    /\ read_log = << >>
    /\ out_disk = << >>
    /\ reports = << >>

Classify ==
    /\ pc = "classify"
    /\ verdict = "none"
    /\ verdict' = IF is_target_file(file_path) THEN "true" ELSE "false"
    /\ UNCHANGED << fs, denied, out_arg, pc, run, directory_tree, stack, target_files,
                    files_to_list, f, k, read_log, out_disk, reports, file_path >>

NextClassify == Classify

SpecClassify == InitClassify /\ [][NextClassify]_vars

----------------------------------------------------------------------------
\* Reading the rendered tree back

TreeLines == str_split(directory_tree, "\n")

\* Where the connector of an entry line starts.
ConnectorAt(line) ==
    CHOOSE i \in DOMAIN line :
        /\ line[i] \in { "U+2514", "U+251C" }
        /\ \A j \in 1..(i - 1) : line[j] \notin { "U+2514", "U+251C" }

LineConnector(line) == SubSeq(line, ConnectorAt(line), ConnectorAt(line) + 2)
LineDepth(line)     == (ConnectorAt(line) - 1) \div 4
LineName(line)      == SubSeq(line, ConnectorAt(line) + 4, Len(line))

\* Line j is an entry of the same directory as line i and comes after it.
LaterSibling(lines, i, j) ==
    /\ j > i
    /\ LineDepth(lines[j]) = LineDepth(lines[i])
    /\ \A m \in (i + 1)..j : LineDepth(lines[m]) >= LineDepth(lines[i])

\* The path, as a sequence of names, of the entry that line i renders: its name
\* below the path of the nearest earlier line one level up.
RECURSIVE RenderedPath(_, _)
RenderedPath(lines, i) ==
    LET d == LineDepth(lines[i])
    IN  IF d = 0 THEN << LineName(lines[i]) >>
        ELSE LET parent == CHOOSE j \in 2..(i - 1) :
                               /\ LineDepth(lines[j]) = d - 1
                               /\ \A m \in (j + 1)..(i - 1) : LineDepth(lines[m]) >= d
             IN  RenderedPath(lines, parent) \o << LineName(lines[i]) >>

RenderedPaths == { RenderedPath(TreeLines, i) : i \in 2..Len(TreeLines) }

ListedPaths == { str_split(files_to_list[i], "/") : i \in DOMAIN files_to_list }

HasIgnorePrefix(name) ==
    \E pre \in { <<".","g","i","t">>, <<"n","o","d","e","_","m","o","d","u","l","e","s">>, <<"_","_","p","y","c","a","c","h","e","_","_">> } : startswith(lower(name), pre)

IgnoredDirectory(p) == p \in fs /\ p \in Directories /\ HasIgnorePrefix(p[Len(p)])

\* An entry the traversals can reach: no directory above it is ignored or
\* unlistable, and it is no ignored directory itself.
Visible(p) ==
    /\ ~IgnoredDirectory(p)
    /\ \A j \in 1..(Len(p) - 1) :
           SubSeq(p, 1, j) \notin denied /\ ~IgnoredDirectory(SubSeq(p, 1, j))

----------------------------------------------------------------------------
\* Claims about the traversals

\* C1: at every depth, no directory whose lower-cased name starts with an ignore
\* prefix is an entry of the rendered tree, no entry beneath such a directory is
\* rendered, and no path collect_files collects or returns has such a directory
\* among its components.
C1_IgnoredDirectoriesAbsent ==
    /\ pc = "open" =>
           \A p \in RenderedPaths :
               \A j \in 1..Len(p) : ~IgnoredDirectory(SubSeq(p, 1, j))
    /\ \A i \in DOMAIN target_files :
           LET p == str_split(target_files[i], "/")
           IN  \A j \in 1..(Len(p) - 1) : ~IgnoredDirectory(SubSeq(p, 1, j))
    /\ \A p \in ListedPaths :
           \A j \in 1..(Len(p) - 1) : ~IgnoredDirectory(SubSeq(p, 1, j))

\* Both traversals have run over a tree with an ignored directory, named in
\* other letter case and longer than the prefix, below a rendered directory.
C1_Witness ==
    /\ pc = "open"
    /\ << <<"a">>, <<".","G","i","t","2">>, <<"c",".","p","y">> >> \in fs
    /\ denied = {}
    /\ << <<"a">> >> \in RenderedPaths

\* C3: within every directory of the rendered tree the last rendered entry
\* carries the terminal connector and every earlier one the branch connector.
C3_LastSiblingConnector ==
    pc = "open" =>
        \A i \in 2..Len(TreeLines) :
            LineConnector(TreeLines[i]) =
                IF \E j \in (i + 1)..Len(TreeLines) : LaterSibling(TreeLines, i, j)
                THEN ConnectorMid
                ELSE ConnectorLast

\* C8: a directory whose listing raises PermissionError has no entry beneath it
\* in the tree and no path beneath it in the collected list, every other
\* reachable entry is still rendered, every other reachable target file is still
\* returned, and the run does not end in an error because of it.
C8_ListingFailureLocal ==
    /\ pc = "open" =>
           /\ \A d \in denied \cap Directories :
                  \A p \in RenderedPaths :
                      ~(Len(p) > Len(d) /\ SubSeq(p, 1, Len(d)) = d)
           /\ RenderedPaths = { p \in fs : Visible(p) }
    /\ pc = "open" =>
           /\ \A d \in denied \cap Directories :
                  \A p \in ListedPaths :
                      ~(Len(p) > Len(d) /\ SubSeq(p, 1, Len(d)) = d)
           /\ ListedPaths =
                  { p \in fs : /\ Visible(p)
                               /\ p \notin Directories
                               /\ is_target_file(p[Len(p)]) }
    /\ pc = "failed" => out_arg = "unwritable"

\* Both traversals have run over a tree in which an unlistable directory holds
\* a target file and is followed by a sibling that is a target file.
C8_Witness ==
    /\ pc = "open"
    /\ << <<"a">> >> \in denied
    /\ << <<"a">>, <<"b",".","p","y">> >> \in fs
    /\ << <<"a",".","p","y">> >> \in fs
    /\ << <<"a",".","p","y">> >> \in RenderedPaths
    /\ <<"a",".","p","y">> \in { files_to_list[i] : i \in DOMAIN files_to_list }

\* C10: every path collect_files returns names a file that the tree of the same
\* run renders at the same place: under the rendered entries of its directories.
C10_CollectedAreRendered ==
    pc \in { "open", "done" } =>
        /\ ListedPaths \subseteq RenderedPaths
        /\ \A i \in DOMAIN read_log : str_split(read_log[i].path, "/") \in RenderedPaths

\* A report is complete that holds the content of a file of a subdirectory,
\* beside a tree that also lists a file which is no target.
C10_Witness ==
    /\ pc = "done"
    /\ \E i \in DOMAIN read_log : read_log[i].path = <<"a","/","b",".","p","y">>
    /\ << <<".","e","n","v">> >> \in RenderedPaths
    /\ << <<".","e","n","v">> >> \notin ListedPaths

\* C6: collect_files returns its paths in ascending order of the whole path
\* strings, and what it returns is fixed by the tree alone, whatever order the
\* walk yielded the names in.
RECURSIVE CodePointLess(_, _)
CodePointLess(a, b) ==
    IF a = << >> THEN b # << >>
    ELSE IF b = << >> THEN FALSE
    ELSE IF a[1] = b[1] THEN CodePointLess(Tail(a), Tail(b))
    ELSE Ord[a[1]] < Ord[b[1]]

C6_SortedWhateverTheWalk ==
    /\ pc \in { "open", "write", "done", "failed" } =>
           \A i \in 1..(Len(files_to_list) - 1) :
               CodePointLess(files_to_list[i], files_to_list[i + 1])
    /\ pc = "open" =>
           { files_to_list[i] : i \in DOMAIN files_to_list } =
               { str_join(<< "/" >>, p) :
                   p \in { q \in fs : /\ Visible(q)
                                      /\ q \notin Directories
                                      /\ is_target_file(q[Len(q)]) } }

\* collect_files has returned after a walk that found the files in another
\* order than the sorted one, one of them in a subdirectory.
C6_Witness ==
    /\ pc = "open"
    /\ target_files # files_to_list
    /\ \E i \in DOMAIN files_to_list : files_to_list[i] = <<"a","/","b",".","p","y">>

----------------------------------------------------------------------------
\* Claims about the report

\* The key of the file a listed relative path names.
ListedKey(rel_path) == str_split(rel_path, "/")

IsOutputFile(rel_path) == out_arg = "inside" /\ rel_path = <<"o","u","t","p","u","t",".","t","x","t">>

\* The section of the i-th listed file: its delimiter line, then what stands
\* for its content, then a newline.
ExpectedBody(i) ==
    LET rel_path == files_to_list[i]
    IN  IF ListedKey(rel_path) \in denied
        THEN << "[", "U+8AAD", "U+307F", "U+8FBC", "U+307F", "U+30A8", "U+30E9", "U+30FC", ":", " " >>
                 \o <<"[","E","r","r","n","o"," ","1","3","]"," ","P","e","r","m","i","s","s","i","o","n"," ","d","e","n","i","e","d",":"," ","'","/","p","r","o","j","/">> \o rel_path \o << "'", "]", "\n" >>
        ELSE IF IsOutputFile(rel_path) THEN read_log[i].text
        ELSE Content(ListedKey(rel_path))

ExpectedSection(i) ==
    <<"-","-","-"," ">> \o files_to_list[i] \o <<" ","-","-","-">> \o << "\n" >> \o ExpectedBody(i) \o << "\n" >>

ExpectedSections(from) ==
    Concat([ j \in 1..(Len(files_to_list) + 1 - from) |-> ExpectedSection(from + j - 1) ])

EndsWith(s, t) == Len(t) <= Len(s) /\ SubSeq(s, Len(s) - Len(t) + 1, Len(s)) = t

\* C4: the report is the first header line, the tree text, a blank line, the
\* second header line and then one section per collected path, in list order:
\* the delimiter line, the file's content, a newline; with an empty list it ends
\* after the second header, and it is written to the output file all the same.
C4_ReportLayout ==
    pc = "done" =>
        /\ Len(read_log) = Len(files_to_list)
        /\ \A i \in DOMAIN read_log :
               /\ read_log[i].path = files_to_list[i]
               /\ (read_log[i].ok /\ ~IsOutputFile(files_to_list[i])) =>
                      read_log[i].text = Content(ListedKey(files_to_list[i]))
        /\ f = <<"=","=","="," ","D","i","r","e","c","t","o","r","y"," ","S","t","r","u","c","t","u","r","e"," ","=","=","=">> \o << "\n" >> \o directory_tree \o << "\n" >>
                   \o << "\n" >> \o <<"=","=","="," ","F","i","l","e"," ","C","o","n","t","e","n","t","s"," ","=","=","=">> \o << "\n" >> \o ExpectedSections(1)
        /\ files_to_list = << >> => EndsWith(f, <<"=","=","="," ","F","i","l","e"," ","C","o","n","t","e","n","t","s"," ","=","=","=">> \o << "\n" >>)
        /\ out_disk = f
        /\ reports[Len(reports)] = f

\* A report of two files with different, non-empty contents is complete.
C4_Witness ==
    /\ pc = "done"
    /\ Len(files_to_list) = 2
    /\ \A i \in DOMAIN read_log : read_log[i].ok /\ read_log[i].text # << >>
    /\ read_log[1].text # read_log[2].text

\* C5: a file whose read fails still gets its delimiter line, followed by the
\* placeholder with the error's text, and every file after it in the list still
\* gets its section; the failure does not end the run.
C5_ReadFailureLocal ==
    /\ pc = "failed" => out_arg = "unwritable"
    /\ pc = "write" => Len(read_log) = k - 1
    /\ pc = "done" =>
           \A i \in DOMAIN files_to_list :
               ListedKey(files_to_list[i]) \in denied =>
                   /\ ~read_log[i].ok
                   /\ EndsWith(f, ExpectedSections(i))

\* A report is complete in which a file that could not be read is followed
\* by a file that could.
C5_Witness ==
    /\ pc = "done"
    /\ \E i \in DOMAIN files_to_list :
           /\ i < Len(files_to_list)
           /\ ListedKey(files_to_list[i]) \in denied
           /\ ListedKey(files_to_list[i + 1]) \notin denied

\* C7: a second run with the same arguments and no other change to the file
\* system writes the report the first run wrote.
C7_SecondRunSameReport ==
    Len(reports) >= 2 => reports[2] = reports[1]

----------------------------------------------------------------------------
\* Claims about the classifier

\* The extension as the text from the last dot of a name on.
LastDotExt(name) ==
    IF rfind(name, ".") = 0 THEN << >> ELSE SubSeq(name, rfind(name, "."), Len(name))

\* C2: a file whose extension, the text from the last dot of its basename on,
\* lower-cased, is a target extension is a target unless its lower-cased
\* basename is in the ignore set.
C2_TargetExtensionAccepted ==
    verdict # "none" =>
        LET base == lower(basename(file_path))
        IN  (LastDotExt(base) \in TARGET_EXTENSIONS /\ base \notin IGNORE_FILENAMES) =>
                verdict = "true"

\* C9: a file whose lower-cased extension or lower-cased basename is in the
\* ignore set is no target.
C9_IgnoreOverrides ==
    verdict # "none" =>
        LET base == lower(basename(file_path))
        IN  (\/ LastDotExt(base) \in IGNORE_FILENAMES
             \/ lower(splitext_ext(basename(file_path))) \in IGNORE_FILENAMES
             \/ base \in IGNORE_FILENAMES) =>
                verdict = "false"

\* The classifier has decided a name whose extension is in the ignore set and
\* one whose basename is.
C9_Witness ==
    /\ verdict = "false"
    /\ file_path \in { <<"a","/","l","i","b",".","s","o">>, <<"x",".","p","y","/",".","g","i","t","i","g","n","o","r","e">> }

====
